---- MODULE Spec2Model ----
(***************************************************************************)
(* Model of the buffered-read streaming encoder                            *)
(*   src/src/tokio/bufread/generic/encoder.rs  (Encoder, the scheduler)    *)
(*   src/src/codec/flate/encoder.rs            (FlateEncoder, the codec)   *)
(* The compression engine (flate2::Compress) is an external collaborator:  *)
(* it is modelled as a lossless, buffering engine whose output is the      *)
(* input bytes in order, interleaved with sync-boundary and end markers.   *)
(***************************************************************************)
EXTENDS Integers, Sequences, FiniteSets, TLC

\* ---------------------------------------------------------------- bounds
MaxInput == 3
MaxCap == 2
MaxPending == 2
MaxAdvances == 3

\* The upstream data: distinct bytes, so that loss, duplication and
\* reordering are all visible.  A run uses the prefix of length `len`.
Input == [i \in 1..MaxInput |-> i]
SyncMark == MaxInput + 1
EndMark == MaxInput + 2

\* The engine's u64 totals, kept modulo a value no per-call delta reaches.
CounterMod == MaxInput + MaxCap + 3

Min(a, b) == IF a <= b THEN a ELSE b
Drop(s, k) == SubSeq(s, k + 1, Len(s))
Take(s, k) == SubSeq(s, 1, k)
\* The element of a one-element set: Only({F(x) : x \in {e}}) computes e once.
Only(S) == CHOOSE x \in S : TRUE

\* The inverse transform: sync boundaries carry no payload.
Decode(s) == SelectSeq(s, LAMBDA t : t # SyncMark)

VARIABLES
  state,      \* Encoder.state
  flushed,    \* FlateEncoder.flushed
  compress,   \* FlateEncoder.compress: the engine
  len,        \* length of the upstream data of this run
  fed,        \* bytes the upstream source has been told are consumed
  budget,     \* "not ready" answers the upstream source may still give
  fixedCap,   \* 0: the caller varies the capacity; c > 0: it always polls with c
  pc,         \* "idle": between polls; "loop": inside do_poll_read; "codec": direct codec use
  cap,        \* capacity of the caller's region in the current poll
  obuf,       \* what has been written into the caller's region in this poll
  pos,        \* output.written().len()
  read,       \* do_poll_read's local `read`
  result,     \* what the last poll returned: "none", "pending", "ok", "err"
  filled,     \* what the last poll reported as filled (buf.advance)
  sink,       \* everything reported to the caller so far, decoded
  calls,      \* the calls made by the last step, in order
  hist        \* history flags (see HistInit)

vars == <<state, flushed, compress, len, fed, budget, fixedCap, pc, cap, obuf,
          pos, read, result, filled, sink, calls, hist>>

\* ---------------------------------------------------------------- engine
\* flate2::Compress, as the codec sees it: compress(input, output, flush)
\* consumes a prefix of input (n bytes), compresses part of what it holds
\* (j bytes become pending output), and writes pending output while the
\* output region has room.  Sync and Finish take everything held and queue
\* a marker; a Sync that finds a boundary still queued continues it.
EngineInit == [held |-> <<>>, pend |-> <<>>, total_in |-> 0, total_out |-> 0,
               fin |-> FALSE]

BoundaryQueued(c) == c.pend # <<>> /\ c.pend[Len(c.pend)] = SyncMark

EngineChoices(c, input, outcap, mode) ==
  { ch \in [n : 0..Len(input), j : 0..(Len(c.held) + Len(input))] :
      /\ ch.j <= Len(c.held) + ch.n
      /\ (mode # "None") => (ch.n = Len(input) /\ ch.j = Len(c.held) + ch.n)
      \* forward progress when both sides have capacity
      /\ (mode = "None" /\ input # <<>> /\ outcap > 0 /\ c.pend = <<>> /\ ch.j = 0)
            => ch.n > 0 }

Compress(c, input, outcap, mode, ch, fault) ==
  IF fault = "err" \/ (c.fin /\ mode # "Finish")
  THEN [eng |-> c, status |-> "Err", out |-> <<>>]
  ELSE IF fault = "buf" \/ outcap = 0
  THEN [eng |-> c, status |-> "BufError", out |-> <<>>]
  ELSE
    LET held1 == c.held \o Take(input, ch.n)
        mark  == IF mode = "Sync" /\ ~(held1 = <<>> /\ BoundaryQueued(c))
                   THEN <<SyncMark>>
                 ELSE IF mode = "Finish" /\ ~c.fin THEN <<EndMark>>
                 ELSE <<>>
        pend1 == c.pend \o Take(held1, ch.j) \o mark
        w     == Min(outcap, Len(pend1))
        e     == [held     |-> Drop(held1, ch.j),
                  pend     |-> Drop(pend1, w),
                  total_in |-> (c.total_in + ch.n) % CounterMod,
                  total_out |-> (c.total_out + w) % CounterMod,
                  fin      |-> (c.fin \/ mode = "Finish")]
    IN [eng |-> e,
        status |-> IF mode = "Finish" /\ e.pend = <<>> THEN "StreamEnd" ELSE "Ok",
        out |-> Take(pend1, w)]

Faults == {"none", "buf", "err"}

\* The choices open to the engine in one call: one that fails, or has no
\* room to write into, chooses nothing.
Choices(c, input, outcap, mode, fault) ==
  IF fault = "none" /\ outcap > 0 THEN EngineChoices(c, input, outcap, mode)
  ELSE {[n |-> 0, j |-> 0]}

\* ------------------------------------------------------------------ codec
\* Mutant: the input cursor is advanced by the whole input, not by the
\* delta of the engine's total_in.
EncodeRawAllIn(c, input, outcap, mode, ch, fault) ==
  Only({ IF r.status = "Err"
         THEN [compress |-> r.eng, status |-> "Err", adv_in |-> 0, adv_out |-> 0,
               out |-> <<>>]
         ELSE [compress |-> r.eng, status |-> r.status,
               adv_in  |-> Len(input),
               adv_out |-> (r.eng.total_out - c.total_out + CounterMod) % CounterMod,
               out |-> r.out]
         : r \in {Compress(c, input, outcap, mode, ch, fault)} })

\* FlateEncoder::encode (the private one): snapshot the engine's totals,
\* run the engine, advance both cursors by the deltas of the totals.
\* `?` on the engine's result returns before any cursor is advanced.
EncodeRaw(c, input, outcap, mode, ch, fault) ==
  LET prior_in  == c.total_in
      prior_out == c.total_out
  IN Only({ IF r.status = "Err"
            THEN [compress |-> r.eng, status |-> "Err", adv_in |-> 0, adv_out |-> 0,
                  out |-> <<>>]
            ELSE [compress |-> r.eng, status |-> r.status,
                  adv_in  |-> (r.eng.total_in - prior_in + CounterMod) % CounterMod,
                  adv_out |-> (r.eng.total_out - prior_out + CounterMod) % CounterMod,
                  out |-> r.out]
            : r \in {Compress(c, input, outcap, mode, ch, fault)} })

\* The record a codec operation hands back: the codec's new fields, the
\* operation's result, the cursor advances, the bytes written, and the mode
\* the engine was invoked in ("none": not invoked).
CodecRet(f, raw, res, mode) ==
  [flushed |-> f, compress |-> raw.compress, res |-> res, adv_in |-> raw.adv_in,
   adv_out |-> raw.adv_out, out |-> raw.out, mode |-> mode, status |-> raw.status]

NoEngine(c) ==
  [compress |-> c, status |-> "none", adv_in |-> 0, adv_out |-> 0, out |-> <<>>]

\* impl Encode for FlateEncoder: encode
FlateEncode(f, c, input, outcap, ch, fault) ==
  Only({ CodecRet(FALSE, raw,
                  CASE raw.status = "Ok" -> "ok"
                    [] raw.status = "StreamEnd" -> "panic"
                    [] OTHER -> "err",
                  "None")
         : raw \in {EncodeRaw(c, input, outcap, "None", ch, fault)} })

\* Mutant: flush does not record that it has flushed.
FlateFlushNoMark(f, c, outcap, fault) ==
  IF f
  THEN CodecRet(f, NoEngine(c), "true", "none")
  ELSE Only({ IF raw.status = "Err"
              THEN CodecRet(f, raw, "err", "Sync")
              ELSE CodecRet(f, raw,
                            IF outcap - raw.adv_out # 0 THEN "true" ELSE "false",
                            "Sync")
              : raw \in {EncodeRaw(c, <<>>, outcap, "Sync",
                                   [n |-> 0, j |-> Len(c.held)], fault)} })

\* impl Encode for FlateEncoder: flush
FlateFlush(f, c, outcap, fault) ==
  IF f
  THEN CodecRet(f, NoEngine(c), "true", "none")
  ELSE Only({ IF raw.status = "Err"
              THEN CodecRet(f, raw, "err", "Sync")
              ELSE CodecRet(TRUE, raw,
                            IF outcap - raw.adv_out # 0 THEN "true" ELSE "false",
                            "Sync")
              : raw \in {EncodeRaw(c, <<>>, outcap, "Sync",
                                   [n |-> 0, j |-> Len(c.held)], fault)} })

\* impl Encode for FlateEncoder: finish
FlateFinish(f, c, outcap, fault) ==
  Only({ CodecRet(FALSE, raw,
                  CASE raw.status = "Ok" -> "false"
                    [] raw.status = "StreamEnd" -> "true"
                    [] OTHER -> "err",
                  "Finish")
         : raw \in {EncodeRaw(c, <<>>, outcap, "Finish",
                              [n |-> 0, j |-> Len(c.held)], fault)} })

\* ------------------------------------------------------------ bookkeeping
\* One entry of `calls`.
Call(op, ret, mode, n, w) == [op |-> op, ret |-> ret, mode |-> mode, n |-> n, w |-> w]
CodecCall(op, r) == Call(op, r.res, r.mode, r.adv_in, r.adv_out)

HistInit ==
  [eof          |-> FALSE,   \* the upstream source has reported end-of-data
   upReady      |-> FALSE,   \* the upstream source has answered other than "not ready"
   codecUsed    |-> FALSE,   \* some codec operation has been called
   errored      |-> FALSE,   \* some step has failed
   finished     |-> FALSE,   \* finish has returned true
   lastFlush    |-> "none",  \* result of the last flush call
   sinceFlush   |-> FALSE,   \* encode or finish called since the last flush call
   sinceOkFlush |-> FALSE,   \* ... since the last flush call that returned Ok
   sawPending   |-> FALSE,   \* the upstream source answered "not ready" in this poll
   consumed     |-> FALSE,   \* bytes consumed since the last flush that returned true
   consumedCall |-> FALSE,   \* ... and since the current poll call began
   boundaryOut  |-> FALSE,   \* the engine has written out a whole sync boundary
                             \* and no byte has been consumed since
   lastStatus   |-> "none"]  \* what the engine reported to the last operation of
                             \* the codec used on its own

\* History after one codec operation.
HistCodec(h, op, r) ==
  [h EXCEPT !.codecUsed = TRUE,
            !.errored = @ \/ r.res \in {"err", "panic"},
            !.finished = @ \/ (op = "finish" /\ r.res = "true"),
            !.lastFlush = IF op = "flush" THEN r.res ELSE @,
            !.sinceFlush = (op # "flush"),
            !.sinceOkFlush = IF op = "flush" THEN (@ /\ r.res = "err") ELSE TRUE]

\* History after one codec operation called by the scheduler: what was
\* consumed (consume follows a transform that succeeded) and whether a
\* whole sync boundary is out.
HistSched(h, op, r) ==
  [HistCodec(h, op, r) EXCEPT
     !.consumed = IF op = "flush" /\ r.res = "true" THEN FALSE
                  ELSE @ \/ (op = "encode" /\ r.res = "ok" /\ r.adv_in > 0),
     !.consumedCall = IF op = "flush" /\ r.res = "true" THEN FALSE
                      ELSE @ \/ (op = "encode" /\ r.res = "ok" /\ r.adv_in > 0),
     !.boundaryOut =
        IF r.mode = "Sync" /\ r.status = "Ok" /\ r.compress.pend = <<>> THEN TRUE
        ELSE IF op = "encode" /\ r.res = "ok" /\ r.adv_in > 0 THEN FALSE
        ELSE @]

InitCommon ==
  /\ state = "Encoding"
  /\ flushed = TRUE
  /\ compress = EngineInit
  /\ len \in 0..MaxInput
  /\ fed = 0
  /\ budget = MaxPending
  /\ cap = 0 /\ obuf = <<>> /\ pos = 0 /\ read = 0
  /\ result = "none" /\ filled = 0
  /\ sink = <<>>
  /\ calls = <<>>
  /\ hist = HistInit

\* ------------------------------------------- the codec used on its own
\* Any caller of the Encode contract: each call gets a fresh output region
\* of any capacity; encode gets any prefix of the data not yet consumed.
CodecInit == InitCommon /\ pc = "codec" /\ fixedCap = 0

CodecApply(op, r, c) ==
  /\ flushed' = r.flushed
  /\ compress' = r.compress
  /\ fed' = fed + r.adv_in
  /\ cap' = c /\ obuf' = r.out /\ pos' = r.adv_out
  /\ sink' = sink \o Decode(r.out)
  /\ calls' = <<CodecCall(op, r)>>
  /\ hist' = [HistCodec(hist, op, r) EXCEPT !.lastStatus = r.status]
  /\ UNCHANGED <<state, len, budget, fixedCap, pc, read, result, filled>>

CodecEncode ==
  /\ pc = "codec" /\ ~hist.finished
  /\ \E k \in 0..(len - fed), c \in 0..MaxCap, fault \in Faults :
       LET input == SubSeq(Input, fed + 1, fed + k)
       IN \E ch \in Choices(compress, input, c, "None", fault) :
            \E r \in {FlateEncode(flushed, compress, input, c, ch, fault)} :
              CodecApply("encode", r, c)

CodecFlush ==
  /\ pc = "codec" /\ ~hist.finished
  /\ \E c \in 0..MaxCap, fault \in Faults :
       \E r \in {FlateFlush(flushed, compress, c, fault)} :
         CodecApply("flush", r, c)

CodecFinish ==
  /\ pc = "codec" /\ ~hist.finished
  /\ \E c \in 0..MaxCap, fault \in Faults :
       \E r \in {FlateFinish(flushed, compress, c, fault)} :
         CodecApply("finish", r, c)

CodecNext == CodecEncode \/ CodecFlush \/ CodecFinish

SpecCodec == CodecInit /\ [][CodecNext]_vars

\* ------------------------------------------------- the cursor on its own
\* PartialBuffer: a borrowed region and a position.  A cursor here is over
\* Take(Input, len) (len = 0: the empty priming input) at position pos;
\* `calls` keeps the advance calls made on it and `result` how the last
\* one ended.
Written(buf, p) == Take(buf, p)
UnwrittenOf(buf, p) == Drop(buf, p)

\* Mutant: the bound of advance is not enforced.
AdvanceUnchecked(p, n, L) == [pos |-> p + n, res |-> "ok"]

\* advance(n): requires p + n <= len; violating the bound is fatal.
Advance(p, n, L) ==
  IF p + n <= L THEN [pos |-> p + n, res |-> "ok"] ELSE [pos |-> p, res |-> "panic"]

CursorInit == InitCommon /\ pc = "cursor" /\ fixedCap = 0

\* PartialBuffer::new over a fresh region.
CursorNew ==
  /\ pc = "cursor"
  /\ len' \in 0..MaxInput
  /\ pos' = 0 /\ result' = "none" /\ calls' = <<>>
  /\ UNCHANGED <<state, flushed, compress, fed, budget, fixedCap, pc, cap, obuf,
                 read, filled, sink, hist>>

CursorAdvance ==
  /\ pc = "cursor" /\ result # "panic" /\ Len(calls) < MaxAdvances
  /\ \E n \in 0..(MaxInput + 1) :
       \E a \in {Advance(pos, n, len)} :
         /\ pos' = a.pos
         /\ result' = a.res
         /\ calls' = Append(calls, Call("advance", a.res, "none", n, 0))
  /\ UNCHANGED <<state, flushed, compress, len, fed, budget, fixedCap, pc, cap,
                 obuf, read, filled, sink, hist>>

CursorNext == CursorNew \/ CursorAdvance

SpecCursor == CursorInit /\ [][CursorNext]_vars

\* -------------------------------------------------------------- scheduler
Init == InitCommon /\ pc = "idle" /\ fixedCap = 0

\* The output cursor after a codec operation wrote r.out into
\* output.unwritten_mut() and advanced the cursor by r.adv_out.
OutBuf(r) == Take(obuf, pos) \o r.out
OutPos(r) == pos + r.adv_out

\* Mutant: the codec is handed the whole region, not the unwritten rest.
UnwrittenWhole == cap

\* output.unwritten(): the room left in the caller's region.
Unwritten == cap - pos

\* Mutant: a blocked source always leads to Flushing.
PendingPhaseAlwaysFlush(rd) == "Flushing"

\* Mutant: a blocked source always suspends the call.
PendingPhaseAlwaysSuspend(rd) == "suspend"

\* Poll::Pending in State::Encoding: suspend, or flush what was consumed.
PendingPhase(rd) == IF rd = 0 THEN "suspend" ELSE "Flushing"

\* Mutant: the result of flush is ignored.
FlushPhaseIgnoring(res) == "Encoding"

\* The phase after flush returned res ("true" / "false").
FlushPhase(res) == IF res = "true" THEN "Encoding" ELSE "Flushing"

\* Mutant: the result of finish is ignored.
FinishPhaseSkip(res) == "Done"

\* The phase after finish returned res ("true" / "false").
FinishPhase(res) == IF res = "true" THEN "Done" ELSE "Finishing"

\* Mutant: the loop does not return when the output is full.
LoopExitsDoneOnly(st, p) == st = "Done"

\* Mutant: the call returns after one iteration, whatever it did.
LoopExitsEager(st, p) == TRUE

\* do_poll_read's two exit tests at the bottom of the loop.
LoopExits(st, p) == st = "Done" \/ p = cap

\* Mutant: "pending" is passed on even when output was written.
PollReadResultNoGuard(r, p) ==
  IF r = "err" THEN "err" ELSE IF r = "pending" THEN "pending" ELSE "ok"

\* Mutant: the `?` on do_poll_read's result is missing; a failure falls
\* into the catch-all arm.
PollReadResultSwallow(r, p) ==
  IF r = "pending" /\ p = 0 THEN "pending" ELSE "ok"

\* poll_read's match on what do_poll_read returned ("pending", "ready",
\* "err"), given output.written().len() = p.
PollReadResult(r, p) ==
  IF r = "err" THEN "err"
  ELSE IF r = "pending" /\ p = 0 THEN "pending"
  ELSE "ok"

\* Mutant: the whole region is reported as filled.
PollReadFilledCap(r, p) ==
  IF PollReadResult(r, p) = "ok" THEN cap ELSE 0

\* Mutant: what was written is reported even when the call fails.
PollReadFilledWritten(r, p) == p

\* buf.advance(len): what poll_read reports as filled.
PollReadFilled(r, p) ==
  IF PollReadResult(r, p) = "ok" THEN p ELSE 0

\* buf.initialize_unfilled(): the caller's region, zeroed where nothing
\* was written.
Region(ob) == ob \o [i \in 1..(cap - Len(ob)) |-> 0]

\* do_poll_read returns r; poll_read reports to the caller.
PollReturn(r, ob, p) ==
  /\ pc' = "idle"
  /\ result' = PollReadResult(r, p)
  /\ filled' = PollReadFilled(r, p)
  /\ sink' = sink \o Decode(Take(Region(ob), PollReadFilled(r, p)))

\* The end of one loop iteration: the new phase is stored, then either the
\* call returns or the loop goes around.
EndIteration(st, ob, p, rd, outcome) ==
  /\ state' = st
  /\ obuf' = ob
  /\ pos' = p
  /\ read' = rd
  /\ IF outcome # "go" THEN PollReturn(outcome, ob, p)
     ELSE IF LoopExits(st, p) THEN PollReturn("ready", ob, p)
     ELSE pc' = "loop" /\ UNCHANGED <<result, filled, sink>>

\* poll_read with no room in the caller's buffer.
PollReadEmpty ==
  /\ pc = "idle" /\ fixedCap = 0
  /\ cap' = 0 /\ obuf' = <<>> /\ pos' = 0
  /\ result' = "ok" /\ filled' = 0
  /\ calls' = <<>>
  /\ hist' = [hist EXCEPT !.sawPending = FALSE, !.consumedCall = FALSE]
  /\ UNCHANGED <<state, flushed, compress, len, fed, budget, fixedCap, pc, read, sink>>

\* poll_read with room: a fresh output cursor, do_poll_read entered, read = 0.
PollReadBegin ==
  /\ pc = "idle"
  /\ \E c \in 1..MaxCap :
       /\ fixedCap \in {0, c}
       /\ cap' = c
  /\ obuf' = <<>> /\ pos' = 0 /\ read' = 0
  /\ pc' = "loop"
  /\ result' = "none" /\ filled' = 0
  /\ calls' = <<>>
  /\ hist' = [hist EXCEPT !.sawPending = FALSE, !.consumedCall = FALSE]
  /\ UNCHANGED <<state, flushed, compress, len, fed, budget, fixedCap, sink>>

\* State::Encoding.  `limited`: the upstream source answers "not ready" only
\* while its budget lasts.  F: the faults the environment may inject.
StepEncoding(limited, F) ==
  /\ pc = "loop" /\ state = "Encoding"
  /\ UNCHANGED <<len, fixedCap, cap>>
  /\ \/ \* Poll::Pending
        /\ limited => budget > 0
        /\ budget' = IF limited THEN budget - 1 ELSE budget
        /\ calls' = <<Call("poll_fill_buf", "pending", "none", 0, 0)>>
        /\ hist' = [hist EXCEPT !.sawPending = TRUE]
        /\ UNCHANGED <<flushed, compress, fed>>
        /\ IF PendingPhase(read) = "suspend"
           THEN EndIteration(state, obuf, pos, read, "pending")
           ELSE EndIteration(PendingPhase(read), obuf, pos, read, "go")
     \/ \* Poll::Ready(Err(_))
        /\ "err" \in F
        /\ calls' = <<Call("poll_fill_buf", "err", "none", 0, 0)>>
        /\ hist' = [hist EXCEPT !.upReady = TRUE, !.errored = TRUE]
        /\ UNCHANGED <<flushed, compress, fed, budget>>
        /\ EndIteration(state, obuf, pos, read, "err")
     \/ \* Poll::Ready(Ok(input)), input empty
        /\ fed = len
        /\ calls' = <<Call("poll_fill_buf", "eof", "none", 0, 0)>>
        /\ hist' = [hist EXCEPT !.upReady = TRUE, !.eof = TRUE]
        /\ UNCHANGED <<flushed, compress, fed, budget>>
        /\ EndIteration("Finishing", obuf, pos, read, "go")
     \/ \* Poll::Ready(Ok(input)), input non-empty
        \E k \in 1..(len - fed), fault \in F :
          LET input == SubSeq(Input, fed + 1, fed + k)
          IN \E ch \in Choices(compress, input, Unwritten, "None", fault) :
               \E r \in {FlateEncode(flushed, compress, input, Unwritten, ch, fault)} :
                  /\ flushed' = r.flushed
                  /\ compress' = r.compress
                  /\ hist' = HistSched([hist EXCEPT !.upReady = TRUE], "encode", r)
                  /\ UNCHANGED budget
                  /\ IF r.res # "ok"
                     THEN /\ calls' = <<Call("poll_fill_buf", "data", "none", k, 0),
                                        CodecCall("encode", r)>>
                          /\ UNCHANGED fed
                          /\ EndIteration(state, OutBuf(r), OutPos(r), read, "err")
                     ELSE /\ calls' = <<Call("poll_fill_buf", "data", "none", k, 0),
                                        CodecCall("encode", r),
                                        Call("consume", "ok", "none", r.adv_in, 0)>>
                          /\ fed' = fed + r.adv_in
                          /\ EndIteration("Encoding", OutBuf(r), OutPos(r),
                                          read + r.adv_in, "go")

\* Mutant: every Flushing step primes.
PrimesAlways(rd) == TRUE

\* Mutant: no Flushing step primes.
PrimesNever(rd) == FALSE

\* `if read == 0`: the Flushing step first gives the codec an empty input.
Primes(rd) == rd = 0

\* State::Flushing.  With read = 0 the codec is first given an empty input
\* (the priming transform); then flush is called on what is left of the output.
NoCall == [flushed |-> flushed, compress |-> compress, res |-> "ok", adv_in |-> 0,
           adv_out |-> 0, out |-> <<>>, mode |-> "none", status |-> "none"]

StepFlushing(F) ==
  /\ pc = "loop" /\ state = "Flushing"
  /\ UNCHANGED <<len, fixedCap, cap, fed, budget>>
  /\ \E f1 \in IF Primes(read) THEN F ELSE {"none"}, f2 \in F :
       \E ch \in IF Primes(read) THEN Choices(compress, <<>>, Unwritten, "None", f1)
                               ELSE {[n |-> 0, j |-> 0]} :
         \E r1 \in {IF Primes(read)
                       THEN FlateEncode(flushed, compress, <<>>, Unwritten, ch, f1)
                       ELSE NoCall} :
         LET c1 == IF Primes(read) THEN <<CodecCall("encode", r1)>> ELSE <<>>
             h1 == IF Primes(read) THEN HistSched(hist, "encode", r1) ELSE hist
         IN IF r1.res # "ok"
            THEN /\ f2 = "none"
                 /\ flushed' = r1.flushed
                 /\ compress' = r1.compress
                 /\ hist' = h1
                 /\ calls' = c1
                 /\ EndIteration(state, OutBuf(r1), OutPos(r1), read, "err")
            ELSE \E r2 \in {FlateFlush(r1.flushed, r1.compress,
                                       Unwritten - r1.adv_out, f2)} :
                    /\ flushed' = r2.flushed
                    /\ compress' = r2.compress
                    /\ hist' = HistSched(h1, "flush", r2)
                    /\ calls' = c1 \o <<CodecCall("flush", r2)>>
                    /\ EndIteration(
                         IF r2.res = "err" THEN state ELSE FlushPhase(r2.res),
                         OutBuf(r1) \o r2.out,
                         OutPos(r1) + r2.adv_out,
                         IF r2.res = "true" THEN 0 ELSE read,
                         IF r2.res = "err" THEN "err" ELSE "go")

\* State::Finishing
StepFinishing(F) ==
  /\ pc = "loop" /\ state = "Finishing"
  /\ UNCHANGED <<len, fixedCap, cap, fed, budget>>
  /\ \E fault \in F :
       \E r \in {FlateFinish(flushed, compress, Unwritten, fault)} :
          /\ flushed' = r.flushed
          /\ compress' = r.compress
          /\ hist' = HistSched(hist, "finish", r)
          /\ calls' = <<CodecCall("finish", r)>>
          /\ EndIteration(
               IF r.res = "err" THEN state ELSE FinishPhase(r.res),
               OutBuf(r), OutPos(r), read,
               IF r.res = "err" THEN "err" ELSE "go")

\* State::Done
StepDone ==
  /\ pc = "loop" /\ state = "Done"
  /\ calls' = <<>>
  /\ UNCHANGED <<flushed, compress, len, fed, budget, fixedCap, cap, hist>>
  /\ EndIteration("Done", obuf, pos, read, "go")

Next ==
  \/ PollReadEmpty
  \/ PollReadBegin
  \/ StepEncoding(FALSE, Faults)
  \/ StepFlushing(Faults)
  \/ StepFinishing(Faults)
  \/ StepDone

Spec == Init /\ [][Next]_vars

\* The caller re-polls with one fixed non-zero capacity, the upstream source
\* answers "not ready" at most MaxPending times and never fails, and the
\* engine reports no fault.
FairInit == InitCommon /\ pc = "idle" /\ fixedCap \in 1..MaxCap

FairNext ==
  \/ PollReadBegin
  \/ StepEncoding(TRUE, {"none"})
  \/ StepFlushing({"none"})
  \/ StepFinishing({"none"})
  \/ StepDone

FairSpec == FairInit /\ [][FairNext]_vars /\ WF_vars(FairNext)

\* ================================================================ claims
FullStream == Take(Input, len) \o <<EndMark>>
Called(op) == \E i \in DOMAIN calls : calls[i].op = op
Returned == pc = "idle" /\ result # "none"
InFlight == IF pc = "loop" THEN Decode(Take(obuf, pos)) ELSE <<>>

\* C1 (no data loss).  In a run without errors, what has been reported to the
\* caller, what the codec wrote in the current call, what the engine holds
\* as pending output and what it holds unprocessed make up, in this order,
\* exactly the bytes marked consumed upstream (followed by the end marker
\* once finish has run); and at Done the caller has the whole stream.
NoDataLoss ==
  ~hist.errored =>
    /\ fed <= len
    /\ sink \o InFlight \o Decode(compress.pend) \o compress.held
         = Take(Input, fed) \o (IF compress.fin THEN <<EndMark>> ELSE <<>>)
    /\ (state = "Done" /\ pc = "idle") => sink = FullStream

NoDataLossWitness ==
  /\ state = "Done" /\ pc = "idle" /\ ~hist.errored
  /\ len = MaxInput /\ hist.lastFlush = "true" /\ sink = FullStream

\* C2 (terminal idempotence).  From Done every step leaves the phase Done,
\* calls nothing, changes neither the codec nor the upstream position nor
\* what the caller has received, and a poll that returns reports success
\* with zero bytes.
TerminalIdempotence ==
  [][state = "Done" =>
       /\ state' = "Done"
       /\ calls' = <<>>
       /\ <<flushed, compress, fed, sink>>' = <<flushed, compress, fed, sink>>
       /\ (pc' = "idle" => result' = "ok" /\ filled' = 0)]_vars

TerminalIdempotenceWitness ==
  /\ state = "Done" /\ pc = "idle" /\ cap > 0
  /\ result = "ok" /\ filled = 0 /\ calls = <<>>

\* C3 (eventual completion), as the claim states it: with finitely many
\* "not ready" answers and a caller that keeps polling with one fixed
\* non-zero capacity, the scheduler eventually reaches Done with the whole
\* stream reported and no error.
EventualCompletion ==
  <>(state = "Done" /\ pc = "idle" /\ ~hist.errored /\ sink = FullStream)

FinishCalledInOrder ==
  Called("finish") => hist.eof /\ hist.lastFlush \in {"none", "true"}

OnlyFinishFromFinishing ==
  state \in {"Finishing", "Done"} =>
    (\A i \in DOMAIN calls' : calls'[i].op = "finish")

\* C4 (ordering of finalize).  finish is called only after the upstream
\* source reported end-of-data and with the last flush, if any, having
\* returned true; from Finishing or Done on, no step calls anything but finish.
OrderingOfFinalize ==
  /\ []FinishCalledInOrder
  /\ [][OnlyFinishFromFinishing]_vars

OrderingOfFinalizeWitness ==
  Called("finish") /\ hist.eof /\ hist.lastFlush = "true" /\ ~hist.errored

FlushCalled == calls' # <<>> /\ calls'[1].op = "flush"

ShortCircuited ==
  /\ calls'[1].ret = "true" /\ calls'[1].mode = "none" /\ calls'[1].w = 0
  /\ obuf' = <<>> /\ compress' = compress

\* C5 (idempotent flush), as the claim states it: a flush call with no
\* encode or finish call since the previous flush call (or construction)
\* returns true, does not invoke the engine and writes nothing.
IdempotentFlushAsClaimed ==
  [][(FlushCalled /\ ~hist.sinceFlush) => ShortCircuited]_vars

\* C5 amended: a flush call with no encode or finish call since the
\* previous flush call that returned without error (or construction)
\* returns true, does not invoke the engine and writes nothing.
IdempotentFlush ==
  [][(FlushCalled /\ ~hist.sinceOkFlush) => ShortCircuited]_vars

IdempotentFlushWitness ==
  /\ calls # <<>> /\ calls[1].op = "flush" /\ calls[1].mode = "none"
  /\ calls[1].ret = "true" /\ compress.total_in > 0 /\ ~hist.sinceOkFlush

BoundaryDone == compress.held = <<>> /\ compress.pend = <<>>

\* C6 (flush result meaning), as the claim states it, for flush calls given
\* room in a run without failures: after flush returned true the engine
\* holds nothing that belongs before the boundary and nothing of the
\* boundary itself; after it returned false the boundary is still incomplete.
FlushResultMeaning ==
  (calls # <<>> /\ calls[1].op = "flush" /\ cap > 0 /\ ~hist.errored) =>
    /\ calls[1].ret = "true" => BoundaryDone
    /\ calls[1].ret = "false" => ~BoundaryDone

IterationProgress ==
  [][(pc = "loop" /\ pc' = "loop" /\ state' = state) =>
        (fed' > fed \/ pos' > pos)]_vars

\* The variant: room left on both cursors, then the rank of the phase.
PhaseRank ==
  CASE state = "Encoding" /\ read > 0 -> 3
    [] state = "Flushing" -> 2
    [] state = "Encoding" -> 1
    [] OTHER -> 0

LoopVariant == 4 * ((len - fed) + (cap - pos)) + PhaseRank

VariantDecreases ==
  [][(pc = "loop" /\ pc' = "loop") =>
        (LoopVariant' < LoopVariant /\ LoopVariant' >= 0)]_vars

\* C7 (forward progress).  A loop iteration that goes around without
\* changing the phase has advanced the input cursor or the output cursor;
\* and every iteration that goes around decreases a variant that is never
\* negative, so every poll call returns after finitely many iterations.
ForwardProgress == IterationProgress /\ VariantDecreases

ForwardProgressWitness ==
  /\ pc = "loop" /\ state = "Encoding" /\ Called("consume") /\ read > 0

\* C8 (suspension condition), as the claim states it: a poll returns
\* "pending" only if the source was not ready and nothing was written, and
\* whenever output was written in the call the call returns success
\* reporting those bytes.
SuspensionConditionAsClaimed ==
  /\ (Returned /\ result = "pending") => (hist.sawPending /\ obuf = <<>>)
  /\ (Returned /\ obuf # <<>>) => (result = "ok" /\ filled = Len(obuf))

\* C8 amended: ... whenever output was written in a call in which no step
\* failed, the call returns success reporting those bytes.
SuspensionCondition ==
  /\ (Returned /\ result = "pending") => (hist.sawPending /\ obuf = <<>>)
  /\ (Returned /\ result # "err" /\ obuf # <<>>) =>
        (result = "ok" /\ filled = Len(obuf))

SuspensionConditionWitness ==
  Returned /\ result = "ok" /\ hist.sawPending /\ obuf # <<>> /\ state = "Encoding"

\* C9 (never-ready upstream).  While the upstream source has answered
\* nothing but "not ready", the phase is Encoding, no codec operation has
\* been called, nothing has failed or been reported, and every poll with
\* room has returned "pending" with zero bytes.
NeverReadyUpstream ==
  ~hist.upReady =>
    /\ state = "Encoding"
    /\ ~hist.codecUsed /\ ~hist.errored
    /\ compress = EngineInit /\ sink = <<>>
    /\ (Returned /\ cap > 0) => (result = "pending" /\ filled = 0)

NeverReadyUpstreamWitness ==
  ~hist.upReady /\ Returned /\ cap > 0 /\ result = "pending" /\ hist.sawPending

\* C10 (output capacity).  What is written into the caller's region never
\* exceeds the capacity of the call, and a successful poll reports exactly
\* the number of bytes the codec wrote during the call.
OutputCapacity ==
  /\ Len(obuf) <= cap /\ pos <= cap
  /\ (Returned /\ result = "ok") => filled = Len(obuf)

OutputCapacityWitness ==
  Returned /\ result = "ok" /\ cap = MaxCap /\ filled = MaxCap

Failed(cs) == \E i \in DOMAIN cs : cs[i].ret = "err"

FailureEndsCall ==
  Failed(calls') =>
    /\ calls'[Len(calls')].ret = "err"
    /\ \A i \in 1..(Len(calls') - 1) : calls'[i].ret # "err"
    /\ pc' = "idle" /\ result' = "err" /\ filled' = 0
    /\ sink' = sink

\* C11 (error propagation).  A step in which the upstream source or a codec
\* operation fails makes no further call, ends the poll call and makes it
\* return the error, reporting nothing, with what earlier polls reported
\* left as it was; and a step without a failure never returns an error.
ErrorPropagation ==
  /\ [][FailureEndsCall]_vars
  /\ []((Returned /\ result = "err") => Failed(calls))

ErrorPropagationWitness ==
  /\ Returned /\ result = "err" /\ Failed(calls)
  /\ calls[Len(calls)].op = "flush" /\ obuf # <<>> /\ sink # <<>>

RECURSIVE Advanced(_)
\* The sum of the amounts of the advance calls in cs that succeeded.
Advanced(cs) ==
  IF cs = <<>> THEN 0
  ELSE Advanced(Take(cs, Len(cs) - 1))
         + (IF cs[Len(cs)].ret = "ok" THEN cs[Len(cs)].n ELSE 0)

CursorInBounds ==
  /\ pos \in 0..len
  /\ pos = Advanced(calls)
  /\ Written(Take(Input, len), pos) \o UnwrittenOf(Take(Input, len), pos)
       = Take(Input, len)
  /\ Len(Written(Take(Input, len), pos)) = pos

OverAdvanceFails ==
  (calls' # calls /\ calls' # <<>>) =>
    LET n == calls'[Len(calls')].n
    IN /\ n <= len - pos => (result' = "ok" /\ pos' = pos + n)
       /\ n > len - pos => (result' = "panic" /\ pos' = pos)

\* C12 (cursor accounting).  For a cursor over any region the program
\* builds and any sequence of advance calls, the position is within 0..len
\* and is the sum of the amounts that were accepted, the written prefix and
\* the unwritten suffix make up the region, and an advance by more than what
\* is left fails and leaves the position where it was.
CursorAccounting ==
  /\ []CursorInBounds
  /\ [][OverAdvanceFails]_vars

CursorAccountingWitness ==
  /\ pc = "cursor" /\ result = "panic" /\ Len(calls) > 1
  /\ pos > 0 /\ pos < len

LastCall(cs, op, ret) == cs # <<>> /\ cs[Len(cs)].op = op /\ cs[Len(cs)].ret = ret

PhaseStep ==
  CASE state = "Encoding" ->
         \/ state' = "Encoding"
         \/ state' = "Flushing" /\ LastCall(calls', "poll_fill_buf", "pending") /\ read > 0
         \/ state' = "Finishing" /\ LastCall(calls', "poll_fill_buf", "eof")
    [] state = "Flushing" ->
         \/ state' = "Flushing" /\ ~LastCall(calls', "flush", "true")
         \/ state' = "Encoding" /\ LastCall(calls', "flush", "true")
    [] state = "Finishing" ->
         \/ state' = "Finishing" /\ ~LastCall(calls', "finish", "true")
         \/ state' = "Done" /\ LastCall(calls', "finish", "true")
    [] OTHER -> state = "Done" /\ state' = "Done"

\* C13 (phase transitions).  The scheduler starts in Encoding, and every
\* step changes the phase only along Encoding->Flushing (source not ready,
\* bytes consumed in this call), Encoding->Finishing (empty chunk),
\* Flushing->Encoding (flush returned true), Finishing->Done (finish
\* returned true); Flushing and Finishing are kept exactly when flush or
\* finish did not return true, and Done is kept for ever.
PhaseTransitions ==
  /\ state = "Encoding"
  /\ [][PhaseStep]_vars

PhaseTransitionsWitness ==
  /\ pc = "loop" /\ state = "Encoding" /\ LastCall(calls, "flush", "true")
  /\ hist.sawPending /\ ~hist.errored

FlushingStep == pc = "loop" /\ state = "Flushing" /\ calls' # <<>>
Primed == calls'[1].op = "encode"
FlushUnprimed == calls'[1].op = "flush"

\* C14 (priming transform), as the claim states it: a Flushing step makes
\* one transform call with an empty input before flush if and only if no
\* bytes were consumed from upstream since the last flush that returned true.
PrimingTransformAsClaimed ==
  [][FlushingStep => (Primed <=> ~hist.consumed)]_vars

\* C14 amended: ... if and only if no bytes were consumed from upstream
\* during the current poll call since the last flush that returned true in
\* it; the priming call is a transform of an empty input that consumes
\* nothing, and flush follows unless the priming call failed.
PrimingTransform ==
  [][FlushingStep =>
       /\ Primed <=> ~hist.consumedCall
       /\ Primed => /\ calls'[1].n = 0 /\ calls'[1].mode = "None"
                    /\ (calls'[1].ret = "ok" <=> Len(calls') = 2)
                    /\ Len(calls') = 2 => calls'[2].op = "flush"
       /\ ~Primed => (FlushUnprimed /\ Len(calls') = 1)]_vars

PrimingTransformWitness ==
  /\ Len(calls) = 2 /\ calls[1].op = "encode" /\ calls[2].op = "flush"
  /\ hist.consumed /\ ~hist.consumedCall /\ ~hist.errored

SyncInvoked == \E i \in DOMAIN calls' : calls'[i].mode = "Sync"

\* C15 (no duplicate flush boundaries), as the claim states it: once the
\* engine has written out a whole sync boundary, no step invokes it in Sync
\* mode again until a transform has consumed a further upstream byte.
NoDuplicateBoundaries ==
  [][(hist.boundaryOut /\ calls' # <<>>) => ~SyncInvoked]_vars

\* C16 (starvation is always fatal), as the claim states it, for the codec
\* used on its own: an operation to which the engine reported BufError
\* returns an error, whatever the mode; Ok maps to success in transform and
\* to false in finish, StreamEnd to true in finish.
StarvationFatal ==
  (pc = "codec" /\ calls # <<>>) =>
    /\ hist.lastStatus = "BufError" => calls[1].ret = "err"
    /\ (calls[1].mode = "None" /\ hist.lastStatus = "Ok") => calls[1].ret = "ok"
    /\ (calls[1].mode = "Finish" /\ hist.lastStatus = "Ok") => calls[1].ret = "false"
    /\ (calls[1].mode = "Finish" /\ hist.lastStatus = "StreamEnd") => calls[1].ret = "true"

\* C17 (flush before suspending), as the claim states it: no poll call
\* returns "pending" while bytes have been consumed from upstream since the
\* last flush that returned true, whichever poll call consumed them.
FlushBeforeSuspendingAsClaimed ==
  (Returned /\ result = "pending") => ~hist.consumed

BlockedAfterConsuming ==
  (state = "Encoding" /\ LastCall(calls', "poll_fill_buf", "pending")
     /\ hist.consumedCall)
    => (state' = "Flushing" /\ result' # "pending")

\* C17 amended: when the upstream source would block after bytes were
\* consumed in the same poll call since the last flush that returned true
\* in it, the scheduler goes to Flushing; so no poll call returns "pending"
\* while there are bytes consumed in that same call since such a flush.
FlushBeforeSuspending ==
  /\ []((Returned /\ result = "pending") => ~hist.consumedCall)
  /\ [][BlockedAfterConsuming]_vars

FlushBeforeSuspendingWitness ==
  /\ state = "Flushing" /\ LastCall(calls, "poll_fill_buf", "pending")
  /\ hist.consumedCall /\ pc = "loop"

\* C18 (end-of-data is never signalled early).  A poll call given room that
\* returns success with zero bytes leaves the scheduler in Done; in
\* Encoding, Flushing and Finishing a successful poll reports at least one
\* byte.
NoEarlyEndOfData ==
  (Returned /\ cap > 0 /\ result = "ok") =>
    /\ filled = 0 => state = "Done"
    /\ state # "Done" => filled > 0

NoEarlyEndOfDataWitness ==
  /\ Returned /\ cap > 0 /\ result = "ok" /\ filled = 0
  /\ state = "Done" /\ len = MaxInput /\ sink = FullStream

\* A flush call that found `flushed` false is one that invoked the engine.
FlushesInvokeEngine ==
  \A i \in DOMAIN calls' : calls'[i].op = "flush" => calls'[i].mode = "Sync"

FlushReached == \E i \in DOMAIN calls' : calls'[i].op = "flush"

\* C19 (the flush short-circuit is never taken), as the claim states it:
\* every flush call the scheduler makes finds `flushed` false and invokes
\* the engine in Sync mode, and every Flushing step makes such a call.
ShortCircuitNeverTakenAsClaimed ==
  [][(calls' # <<>> => FlushesInvokeEngine)
       /\ (FlushingStep => FlushReached)]_vars

\* C19 amended: every flush call the scheduler makes finds `flushed` false
\* and invokes the engine in Sync mode, and every Flushing step whose
\* priming transform did not fail makes such a call.
ShortCircuitNeverTaken ==
  [][(calls' # <<>> => FlushesInvokeEngine)
       /\ (FlushingStep => (FlushReached \/ (Primed /\ calls'[1].ret = "err")))]_vars

ShortCircuitNeverTakenWitness ==
  /\ Len(calls) = 2 /\ calls[1].op = "encode" /\ calls[1].ret = "ok"
  /\ calls[2].op = "flush" /\ calls[2].mode = "Sync" /\ calls[2].ret = "true"
  /\ state = "Encoding" /\ flushed

\* C20 (state unchanged on error).  A step that fails leaves the phase as it
\* was before the step, marks no upstream byte consumed, and the call
\* reports no filled bytes and delivers nothing, whatever the codec wrote
\* into the region earlier in the call.
StateUnchangedOnError ==
  [][Failed(calls') =>
       /\ state' = state
       /\ fed' = fed /\ read' = read
       /\ \A i \in DOMAIN calls' : calls'[i].op # "consume"
       /\ filled' = 0 /\ sink' = sink]_vars

StateUnchangedOnErrorWitness ==
  /\ Returned /\ result = "err" /\ LastCall(calls, "encode", "err")
  /\ state = "Encoding" /\ read > 0 /\ obuf # <<>> /\ filled = 0

====
